---- MODULE Spec2Model ----
(***************************************************************************)
(* Model of kalosm-language/src/tool/mod.rs: the incremental parsers       *)
(* IndexParser and OneLine, and the ToolManager registry that assembles    *)
(* them into the ReAct step grammars.                                      *)
(*                                                                         *)
(* Byte strings are sequences of integers 0..255.  Parsers are data        *)
(* (records tagged by "type") interpreted by Parse; a PartialState is a    *)
(* record; a parse outcome is a record tagged "Finished", "Incomplete" or  *)
(* "Err".  Indexes reported by IndexParser are the code's 0-based ones.    *)
(***************************************************************************)
EXTENDS Integers, Sequences, FiniteSets, TLC

VARIABLES
    parsers,    \* IndexParser.parsers of the index-parser session
    ixInput,    \* the whole byte stream of the index-parser session
    ixFed,      \* number of bytes of ixInput handed to parse so far
    ixState,    \* the IndexParserState threaded between calls
    ixCall,     \* the last call of IndexParser::parse: state, input, result
    olInput,    \* the whole byte stream of the OneLine session
    olFed,      \* number of bytes of olInput handed to parse so far
    olState,    \* the OneLineState threaded between calls
    olCall,     \* the last call of OneLine::parse: state, input, result
    tools,      \* ToolManager.tools, in registration order
    regCall,    \* the last grammar-building call on the ToolManager and its outcome
    grammar,    \* the grammar of the grammar session, once its state was created
    gInput,     \* the whole byte stream of the grammar session
    gFed,       \* number of bytes of gInput handed to parse so far
    gState,     \* the PartialState threaded between calls
    gCall       \* the last call of the grammar's parse: state, input, result

vars == <<parsers, ixInput, ixFed, ixState, ixCall,
          olInput, olFed, olState, olCall,
          tools, regCall, grammar, gInput, gFed, gState, gCall>>

ixVars == <<parsers, ixInput, ixFed, ixState, ixCall>>
olVars == <<olInput, olFed, olState, olCall>>
regVars == <<tools, regCall, grammar, gInput, gFed, gState, gCall>>

----------------------------------------------------------------------------
(* Bounds *)

MaxBranches == 2
MaxLitLen == 2
MaxIxInputLen == 2
MaxLineLen == 4
MaxTools == 2
MaxChunkLen == 1

----------------------------------------------------------------------------
(* Byte strings *)

Min(a, b) == IF a < b THEN a ELSE b

SeqsUpTo(S, n) == UNION {[1..k -> S] : k \in 0..n}

\* &s[..n]
Take(s, n) == SubSeq(s, 1, n)

\* &s[n..]
Drop(s, n) == SubSeq(s, n + 1, Len(s))

IsPrefix(p, s) == Len(p) <= Len(s) /\ Take(s, Len(p)) = p

LF == 10
CR == 13

----------------------------------------------------------------------------
(* kalosm_sample::ParseResult and Result<ParseResult, Error> *)

Finished(r, rem) == [tag |-> "Finished", result |-> r, remaining |-> rem]

Incomplete(s, rn) == [tag |-> "Incomplete", new_state |-> s, required_next |-> rn]

Err(e) == [tag |-> "Err", err |-> e]

NoCall == [tag |-> "None"]

\* Cow<'static, str>
Borrowed(s) == [kind |-> "Borrowed", str |-> s]

Owned(s) == [kind |-> "Owned", str |-> s]

\* Option<Cow<'static, str>>::None
NoHint == [kind |-> "None", str |-> <<>>]

\* <Cow<str> as Default>::default()
DefaultHint == Owned(<<>>)

----------------------------------------------------------------------------
(* LiteralParser (kalosm_sample): matches the literal byte by byte, keeping *)
(* the offset reached; the hint of an Incomplete result is the rest of the  *)
(* literal.  Whether a sub-parser hands its hint out as a borrowed or an    *)
(* owned string is a property of the sub-parser type S of IndexParser.      *)

LiteralParser(lit, borrowed) == [type |-> "Literal", literal |-> lit, borrowed |-> borrowed]

LiteralParserOffset(n) == [offset |-> n]

LiteralHint(p, offset) ==
    IF p.borrowed THEN Borrowed(Drop(p.literal, offset))
    ELSE Owned(Drop(p.literal, offset))

LiteralParse(p, state, input) ==
    LET rest == Drop(p.literal, state.offset)
        n == Min(Len(input), Len(rest))
    IN  IF \E k \in 1..n : input[k] # rest[k]
        THEN Err(<<>>)
        ELSE IF state.offset + n = Len(p.literal)
             THEN Finished(<<>>, Drop(input, n))
             ELSE Incomplete(LiteralParserOffset(state.offset + n),
                             LiteralHint(p, state.offset + n))

----------------------------------------------------------------------------
(* OneLine *)

\* char::is_whitespace on char::from(u8): the White_Space code points below 256
IsWhitespace(c) == c \in {9, 10, 11, 12, 13, 32, 133, 160}

OneLineState(aw, bytes) == [all_whitespace |-> aw, bytes |-> bytes]

\* faulty variant of OneLineCreateParserState: the flag starts false
OneLineCreateParserStateNotBlank == OneLineState(FALSE, <<>>)

OneLineCreateParserState == OneLineState(TRUE, <<>>)

\* U+FFFD REPLACEMENT CHARACTER in UTF-8
Replacement == <<239, 191, 189>>

IsCont(b) == b >= 128 /\ b <= 191

\* number of bytes of the UTF-8 sequence a lead byte announces (0: not a lead)
Utf8Width(b) ==
    IF b < 128 THEN 1
    ELSE IF b >= 194 /\ b <= 223 THEN 2
    ELSE IF b >= 224 /\ b <= 239 THEN 3
    ELSE IF b >= 240 /\ b <= 244 THEN 4
    ELSE 0

\* the range a lead byte allows for the byte after it
SecondOk(lead, b) ==
    IF lead = 224 THEN b >= 160 /\ b <= 191
    ELSE IF lead = 237 THEN b >= 128 /\ b <= 159
    ELSE IF lead = 240 THEN b >= 144 /\ b <= 191
    ELSE IF lead = 244 THEN b >= 128 /\ b <= 143
    ELSE IsCont(b)

RECURSIVE ValidRun(_, _, _, _)
\* how many bytes from position k on continue the sequence led by bytes[k],
\* looking at positions k+j .. k+w-1
ValidRun(bytes, k, j, w) ==
    IF j >= w \/ k + j > Len(bytes) THEN j
    ELSE IF (IF j = 1 THEN SecondOk(bytes[k], bytes[k + j]) ELSE IsCont(bytes[k + j]))
         THEN ValidRun(bytes, k, j + 1, w)
         ELSE j

RECURSIVE FromUtf8LossyAt(_, _)
FromUtf8LossyAt(bytes, k) ==
    IF k > Len(bytes) THEN <<>>
    ELSE LET w == Utf8Width(bytes[k])
         IN  IF w = 0 THEN Replacement \o FromUtf8LossyAt(bytes, k + 1)
             ELSE LET got == ValidRun(bytes, k, 1, w)
                  IN  IF got = w
                      THEN SubSeq(bytes, k, k + w - 1) \o FromUtf8LossyAt(bytes, k + w)
                      ELSE Replacement \o FromUtf8LossyAt(bytes, k + got)

\* String::from_utf8_lossy(bytes).to_string(), as the bytes of the String
FromUtf8Lossy(bytes) == FromUtf8LossyAt(bytes, 1)

\* faulty variant of SeeByte: any byte but a terminator counts as content
SeeByteAnyContent(state, c) ==
    IF state.all_whitespace /\ c # LF /\ c # CR
    THEN OneLineState(FALSE, state.bytes)
    ELSE state

\* what one byte does to state.all_whitespace
SeeByte(state, c) ==
    IF state.all_whitespace /\ ~IsWhitespace(c)
    THEN OneLineState(FALSE, state.bytes)
    ELSE state

IsTerminator(c) == c = LF \/ c = CR

\* faulty variant of OnTerminator: a line feed right after the carriage return is
\* taken as part of the terminator
OnTerminatorSwallowsLf(state, input, k) ==
    IF state.all_whitespace
    THEN Err(<<>>)
    ELSE Finished(FromUtf8Lossy(state.bytes),
                  IF input[k] = CR /\ k < Len(input) /\ input[k + 1] = LF
                  THEN Drop(input, k + 1)
                  ELSE Drop(input, k))

\* the branch taken at a terminator byte, input[k]
OnTerminator(state, input, k) ==
    IF state.all_whitespace
    THEN Err(<<>>)
    ELSE Finished(FromUtf8Lossy(state.bytes), Drop(input, k))

RECURSIVE OneLineLoop(_, _, _)
\* the while loop over input, about to read input[k]
OneLineLoop(state, input, k) ==
    IF k > Len(input) THEN Incomplete(state, DefaultHint)
    ELSE LET c == input[k]
             seen == SeeByte(state, c)
         IN  IF IsTerminator(c) THEN OnTerminator(seen, input, k)
             ELSE OneLineLoop(OneLineState(seen.all_whitespace, Append(seen.bytes, c)),
                              input, k + 1)

\* faulty variant of OnEmptyInput: no bytes always means "need more data"
OnEmptyInputNeedsMore(state) == Incomplete(state, DefaultHint)

\* the early return of parse on an empty input
OnEmptyInput(state) ==
    IF state.all_whitespace THEN Err(<<>>) ELSE Incomplete(state, DefaultHint)

\* faulty variant of OneLineParse: the scan starts from an empty buffer instead of
\* the bytes accumulated in the state
OneLineParseFreshBuffer(state, input) ==
    IF input = <<>> THEN OnEmptyInput(state)
    ELSE OneLineLoop(OneLineState(state.all_whitespace, <<>>), input, 1)

OneLineParse(state, input) ==
    IF input = <<>> THEN OnEmptyInput(state)
    ELSE OneLineLoop(state, input, 1)

\* the caller's state when parse has returned: parse takes it by shared
\* reference and writes only to the clone it makes of it
OneLineStateAfterParse(state, input) == state

----------------------------------------------------------------------------
(* IndexParser *)

IndexParser(ps) == [type |-> "Index", parsers |-> ps]

IndexParserState(states) == [states |-> states]

\* the entries of IndexParserState.states: Result<PA, E>
OkState(s) == [tag |-> "Ok", state |-> s]

ErrState(e) == [tag |-> "Err", err |-> e]

RECURSIVE Parse(_, _, _)
RECURSIVE CreateParserState(_)

\* common_bytes: length of the longest common prefix of two hints
RECURSIVE CommonBytes(_, _, _)
CommonBytes(a, b, n) ==
    IF n < Len(a) /\ n < Len(b) /\ a[n + 1] = b[n + 1]
    THEN CommonBytes(a, b, n + 1)
    ELSE n

\* the match on (r, new_required_next) that builds the merged hint
MergeHint(r, new) ==
    LET common_bytes == CommonBytes(r.str, new.str, 0)
    IN  IF r.kind = "Borrowed" THEN Borrowed(Drop(r.str, common_bytes))
        ELSE IF new.kind = "Borrowed" THEN Borrowed(Drop(new.str, common_bytes))
        ELSE Owned(Take(r.str, common_bytes))

\* match required_next { Some(r) => merge, None => the new hint }
FoldHint(required_next, new) ==
    IF required_next.kind = "None" THEN new ELSE MergeHint(required_next, new)

\* the local variables of IndexParser::parse; ret is the early return, if any,
\* and invoked the positions whose sub-parser was called
IndexLocals(states) ==
    [states |-> states, has_incomplete_option |-> FALSE, required_next |-> NoHint,
     ret |-> NoCall, invoked |-> {}]

\* faulty variant of OnFinished: reports the 1-based position of the branch
OnFinishedOneBased(acc, i, result) ==
    [acc EXCEPT !.ret = Finished(i, result.remaining)]

\* arm Ok(ParseResult::Finished { .. }) of branch i (1-based position)
OnFinished(acc, i, result) ==
    [acc EXCEPT !.ret = Finished(i - 1, result.remaining)]

\* faulty variant of OnIncomplete: has_incomplete_option is not set
OnIncompleteForgetsFlag(acc, i, result) ==
    [acc EXCEPT !.states[i] = OkState(result.new_state),
                !.required_next = FoldHint(acc.required_next, result.required_next)]

\* arm Ok(ParseResult::Incomplete { .. })
OnIncomplete(acc, i, result) ==
    [acc EXCEPT !.states[i] = OkState(result.new_state),
                !.has_incomplete_option = TRUE,
                !.required_next = FoldHint(acc.required_next, result.required_next)]

\* faulty variant of OnErr: fails as soon as a branch is rejected while none is
\* Incomplete, without waiting for the last branch
OnErrFailFast(acc, i, e, last_index) ==
    IF ~acc.has_incomplete_option
    THEN [acc EXCEPT !.ret = Err(e)]
    ELSE [acc EXCEPT !.states[i] = ErrState(e)]

\* arm Err(e) of the sub-parser's result
OnErr(acc, i, e, last_index) ==
    IF ~acc.has_incomplete_option /\ i - 1 = last_index
    THEN [acc EXCEPT !.ret = Err(e)]
    ELSE [acc EXCEPT !.states[i] = ErrState(e)]

\* faulty variant of OnDead: a dead last branch never fails the call
OnDeadNeverFails(acc, i, last_index) == acc

\* arm Err(err) of &states[i]: the branch died in an earlier call
OnDead(acc, i, last_index) ==
    IF ~acc.has_incomplete_option /\ i - 1 = last_index
    THEN [acc EXCEPT !.ret = Err(acc.states[i].err)]
    ELSE acc

\* faulty variant of IndexStep: a dead branch is tried again from its
\* initial state
IndexStepRetriesDead(p, acc, input, i) ==
    LET last_index == Len(p.parsers) - 1
        state == IF acc.states[i].tag = "Ok" THEN acc.states[i].state
                 ELSE CreateParserState(p.parsers[i])
        result == Parse(p.parsers[i], state, input)
        called == [acc EXCEPT !.invoked = acc.invoked \cup {i}]
    IN  CASE result.tag = "Finished" -> OnFinished(called, i, result)
          [] result.tag = "Incomplete" -> OnIncomplete(called, i, result)
          [] result.tag = "Err" -> OnErr(called, i, result.err, last_index)

\* one iteration of the for loop
IndexStep(p, acc, input, i) ==
    LET last_index == Len(p.parsers) - 1
    IN  IF acc.states[i].tag = "Ok"
        THEN LET result == Parse(p.parsers[i], acc.states[i].state, input)
                 called == [acc EXCEPT !.invoked = acc.invoked \cup {i}]
             IN  CASE result.tag = "Finished" -> OnFinished(called, i, result)
                   [] result.tag = "Incomplete" -> OnIncomplete(called, i, result)
                   [] result.tag = "Err" -> OnErr(called, i, result.err, last_index)
        ELSE OnDead(acc, i, last_index)

RECURSIVE IndexLoop(_, _, _, _)
IndexLoop(p, acc, input, i) ==
    IF i > Len(p.parsers) \/ acc.ret.tag # "None" THEN acc
    ELSE IndexLoop(p, IndexStep(p, acc, input, i), input, i + 1)

\* the locals of parse when it returns
IndexRun(p, state, input) == IndexLoop(p, IndexLocals(state.states), input, 1)

IndexParse(p, state, input) ==
    LET fin == IndexRun(p, state, input)
    IN  IF fin.ret.tag # "None" THEN fin.ret
        ELSE Incomplete(IndexParserState(fin.states),
                        IF fin.required_next.kind = "None" THEN DefaultHint
                        ELSE fin.required_next)

IndexCreateParserState(p) ==
    IndexParserState([i \in 1..Len(p.parsers) |-> OkState(CreateParserState(p.parsers[i]))])

\* faulty variant of IndexStateAfterParse: the loop writes to the caller's
\* vector
IndexStateAfterParseInPlace(state, fin) == IndexParserState(fin.states)

\* the caller's state when parse has returned with the locals fin: parse
\* takes it by shared reference and writes only to states, the clone of
\* state.states
IndexStateAfterParse(state, fin) == state

----------------------------------------------------------------------------
(* SequenceParser and ChoiceParser (kalosm_sample), built by then and or *)

Then(p1, p2) == [type |-> "Sequence", parser1 |-> p1, parser2 |-> p2]

Or(p1, p2) == [type |-> "Choice", parser1 |-> p1, parser2 |-> p2]

\* kalosm_sample::Either
Left(v) == [side |-> "Left", value |-> v]

Right(v) == [side |-> "Right", value |-> v]

\* SequenceParserState
FirstParser(s) == [stage |-> "FirstParser", s |-> s]

SecondParser(s, o1) == [stage |-> "SecondParser", s |-> s, o1 |-> o1]

\* the second stage, run on its state with the bytes left for it
SequenceSecond(p, s2, o1, input) ==
    LET r2 == Parse(p.parser2, s2, input)
    IN  CASE r2.tag = "Err" -> Err(Right(r2.err))
          [] r2.tag = "Finished" -> Finished(<<o1, r2.result>>, r2.remaining)
          [] r2.tag = "Incomplete" ->
                Incomplete(SecondParser(r2.new_state, o1), r2.required_next)

\* the first stage must finish before the second consumes anything; the
\* second is started on whatever the first left of the same input
SequenceParse(p, state, input) ==
    IF state.stage = "FirstParser"
    THEN LET r1 == Parse(p.parser1, state.s, input)
         IN  CASE r1.tag = "Err" -> Err(Left(r1.err))
               [] r1.tag = "Incomplete" ->
                     Incomplete(FirstParser(r1.new_state), r1.required_next)
               [] r1.tag = "Finished" ->
                     SequenceSecond(p, CreateParserState(p.parser2), r1.result,
                                    r1.remaining)
    ELSE SequenceSecond(p, state.s, state.o1, input)

ChoiceParserState(s1, s2) == [state1 |-> s1, state2 |-> s2]

\* one alternative of a choice on its stored Result<state, error>
ChoiceSide(parser, stored, input) ==
    IF stored.tag = "Ok" THEN Parse(parser, stored.state, input) ELSE Err(stored.err)

StoredAfter(r) ==
    IF r.tag = "Incomplete" THEN OkState(r.new_state) ELSE ErrState(r.err)

\* left is tried first; right is tried when left did not finish; the choice
\* fails when both are dead
ChoiceParse(p, state, input) ==
    LET r1 == ChoiceSide(p.parser1, state.state1, input)
    IN  IF r1.tag = "Finished" THEN Finished(Left(r1.result), r1.remaining)
        ELSE LET r2 == ChoiceSide(p.parser2, state.state2, input)
             IN  IF r2.tag = "Finished" THEN Finished(Right(r2.result), r2.remaining)
                 ELSE IF r1.tag = "Err" /\ r2.tag = "Err" THEN Err(Right(r2.err))
                 ELSE Incomplete(ChoiceParserState(StoredAfter(r1), StoredAfter(r2)),
                                 IF r1.tag = "Err" THEN r2.required_next
                                 ELSE IF r2.tag = "Err" THEN r1.required_next
                                 ELSE Owned(Take(r1.required_next.str,
                                                 CommonBytes(r1.required_next.str,
                                                             r2.required_next.str, 0))))

----------------------------------------------------------------------------
(* A sub-parser S of IndexParser<S, E, PA> with an error value of its own:  *)
(* parser p, whose error is reported as e.  IndexParser is generic in E and *)
(* clones and returns the errors of its branches; with e the errors of      *)
(* different branches can be told apart.                                    *)

BranchParser(p, e) == [type |-> "Branch", parser |-> p, error |-> e]

BranchParse(p, state, input) ==
    LET r == Parse(p.parser, state, input)
    IN  IF r.tag = "Err" THEN Err(p.error) ELSE r

----------------------------------------------------------------------------
(* The Parser and CreateParserState traits, dispatched on the parser's type *)

CreateParserState(p) ==
    CASE p.type = "Literal" -> LiteralParserOffset(0)
      [] p.type = "OneLine" -> OneLineCreateParserState
      [] p.type = "Index" -> IndexCreateParserState(p)
      [] p.type = "Sequence" -> FirstParser(CreateParserState(p.parser1))
      [] p.type = "Choice" ->
            ChoiceParserState(OkState(CreateParserState(p.parser1)),
                              OkState(CreateParserState(p.parser2)))
      [] p.type = "Branch" -> CreateParserState(p.parser)

Parse(p, state, input) ==
    CASE p.type = "Literal" -> LiteralParse(p, state, input)
      [] p.type = "OneLine" -> OneLineParse(state, input)
      [] p.type = "Index" -> IndexParse(p, state, input)
      [] p.type = "Sequence" -> SequenceParse(p, state, input)
      [] p.type = "Choice" -> ChoiceParse(p, state, input)
      [] p.type = "Branch" -> BranchParse(p, state, input)

OneLine == [type |-> "OneLine"]

\* the record of one call of parse
Call(state, input, result) == [state |-> state, input |-> input, result |-> result]

NoCallYet == Call(<<>>, <<>>, NoCall)

\* the state a caller threads on after a call
Threaded(state, result) ==
    IF result.tag = "Incomplete" THEN result.new_state ELSE state

\* what a call leaves of the state it was given
StateAfterParse(p, state, input) ==
    CASE p.type = "Index" -> IndexStateAfterParse(state, IndexRun(p, state, input))
      [] p.type = "OneLine" -> OneLineStateAfterParse(state, input)

----------------------------------------------------------------------------
(* Index-parser session: an IndexParser over literal branches is fed a byte *)
(* stream in non-empty chunks, the returned state threaded between calls.   *)

IxBytes == {97, 98}

LiteralParsers ==
    {LiteralParser(l, b) : l \in SeqsUpTo(IxBytes, MaxLitLen), b \in BOOLEAN}

\* the session's IndexParser: branch i reports the error i - 1
ixParser == IndexParser([i \in 1..Len(parsers) |-> BranchParser(parsers[i], i - 1)])

OlIdle ==
    /\ olInput = <<>>
    /\ olFed = 0
    /\ olState = OneLineCreateParserState
    /\ olCall = NoCallYet

NoGrammar == [type |-> "None"]

NoRegCall == [op |-> "none", result |-> [tag |-> "None"]]

RegIdle ==
    /\ tools = <<>>
    /\ regCall = NoRegCall
    /\ grammar = NoGrammar
    /\ gInput = <<>>
    /\ gFed = 0
    /\ gState = <<>>
    /\ gCall = NoCallYet

IxIdle ==
    /\ parsers = <<LiteralParser(<<>>, FALSE)>>
    /\ ixInput = <<>>
    /\ ixFed = 0
    /\ ixState = IndexCreateParserState(ixParser)
    /\ ixCall = NoCallYet

InitIndex ==
    /\ parsers \in UNION {[1..n -> LiteralParsers] : n \in 1..MaxBranches}
    /\ ixInput \in SeqsUpTo(IxBytes, MaxIxInputLen)
    /\ ixFed = 0
    /\ ixState = IndexCreateParserState(ixParser)
    /\ ixCall = NoCallYet
    /\ OlIdle
    /\ RegIdle

\* parse(&ixState, chunk) with the next n bytes of the stream
IndexFeed ==
    /\ ixCall.result.tag \in {"None", "Incomplete"}
    /\ \E n \in 1..(Len(ixInput) - ixFed) :
         LET chunk == SubSeq(ixInput, ixFed + 1, ixFed + n)
             result == IndexParse(ixParser, ixState, chunk)
         IN  /\ ixCall' = Call(ixState, chunk, result)
             /\ ixState' = Threaded(ixState, result)
             /\ ixFed' = ixFed + n
    /\ UNCHANGED <<parsers, ixInput, olVars, regVars>>

NextIndex == IndexFeed

SpecIndex == InitIndex /\ [][NextIndex]_vars

----------------------------------------------------------------------------
(* OneLine session: OneLine is fed a byte stream in chunks, the returned    *)
(* state threaded between calls; a call may also be handed no bytes.        *)

OlBytes == {LF, CR, 32, 111, 160, 194}

InitLine ==
    /\ olInput \in SeqsUpTo(OlBytes, MaxLineLen)
    /\ olFed = 0
    /\ olState = OneLineCreateParserState
    /\ olCall = NoCallYet
    /\ IxIdle
    /\ RegIdle

\* parse(&olState, chunk) with the next n bytes of the stream
OneLineFeed ==
    /\ olCall.result.tag \in {"None", "Incomplete"}
    /\ \E n \in 1..(Len(olInput) - olFed) :
         LET chunk == SubSeq(olInput, olFed + 1, olFed + n)
             result == OneLineParse(olState, chunk)
         IN  /\ olCall' = Call(olState, chunk, result)
             /\ olState' = Threaded(olState, result)
             /\ olFed' = olFed + n
    /\ UNCHANGED <<olInput, ixVars, regVars>>

\* parse(&olState, b"")
OneLineFeedEmpty ==
    /\ olCall.result.tag \in {"None", "Incomplete"}
    /\ LET result == OneLineParse(olState, <<>>)
       IN  /\ olCall' = Call(olState, <<>>, result)
           /\ olState' = Threaded(olState, result)
    /\ UNCHANGED <<olInput, olFed, ixVars, regVars>>

NextLine == OneLineFeed \/ OneLineFeedEmpty

SpecLine == InitLine /\ [][NextLine]_vars

----------------------------------------------------------------------------
(* Properties of the index-parser session *)

ixInitial == IndexCreateParserState(ixParser)

ixCalled == ixCall.result.tag # "None"

\* branch i was alive in the state given to the last call
AliveBefore(i) == ixCall.state.states[i].tag = "Ok"

\* what branch i's sub-parser returns on the last call's state and input
SubResult(i) ==
    Parse(ixParser.parsers[i], ixCall.state.states[i].state, ixCall.input)

Branches == 1..Len(parsers)

\* the required-next hints of the branches that reported Incomplete
IncompleteHints ==
    {SubResult(i).required_next.str :
        i \in {j \in Branches : AliveBefore(j) /\ SubResult(j).tag = "Incomplete"}}

Prefixes(s) == {Take(s, n) : n \in 0..Len(s)}

\* the longest byte string that is a prefix of every member of H
LongestCommonPrefix(H) ==
    CHOOSE p \in UNION {Prefixes(h) : h \in H} :
        /\ \A h \in H : IsPrefix(p, h)
        /\ \A q \in UNION {Prefixes(h) : h \in H} :
              (\A h \in H : IsPrefix(q, h)) => Len(q) <= Len(p)

\* C1: in every Incomplete result of IndexParser.parse the merged hint is the
\* longest common prefix of the hints of the branches that reported
\* Incomplete in that call, whether those hints are borrowed or owned.
C1_MergedHintIsCommonPrefix ==
    (ixCalled /\ ixCall.result.tag = "Incomplete") =>
        ixCall.result.required_next.str = LongestCommonPrefix(IncompleteHints)

\* C2: the first alive branch, in index order, whose sub-parser finishes on
\* the current input decides the call: Finished with its index and its
\* remainder, whatever later branches would return.
C2_FirstFinishedWins ==
    ixCalled =>
        \A i \in Branches :
            (/\ AliveBefore(i)
             /\ SubResult(i).tag = "Finished"
             /\ \A j \in 1..(i - 1) : AliveBefore(j) => SubResult(j).tag # "Finished")
            => ixCall.result = Finished(i - 1, SubResult(i).remaining)

\* literals "a" then "ab" parsing "ab" from the initial state: index 0,
\* remainder "b", although the later branch matches the whole input
C2_Witness ==
    /\ ixCalled
    /\ Len(parsers) >= 2
    /\ parsers[1].literal = <<97>>
    /\ parsers[2].literal = <<97, 98>>
    /\ ixCall.state = ixInitial
    /\ ixCall.input = <<97, 98>>
    /\ ixCall.result = Finished(0, <<98>>)

NoEarlierPrefix(i) ==
    \A j \in 1..(i - 1) : ~IsPrefix(parsers[j].literal, parsers[i].literal)

\* C3: feeding exactly the bytes of branch i in one call from the initial
\* state finishes at position i with an empty remainder, when no
\* earlier-registered literal is a prefix of literal i.
C3_ExactLiteralFinishes ==
    ixCalled =>
        \A i \in Branches :
            (/\ ixCall.state = ixInitial
             /\ ixCall.input = parsers[i].literal
             /\ NoEarlierPrefix(i))
            => ixCall.result = Finished(i - 1, <<>>)

\* branch i finishes although it is a proper prefix of a later branch, which
\* is still Incomplete on the same bytes
C3_Witness ==
    /\ ixCalled
    /\ ixCall.state = ixInitial
    /\ \E i \in Branches :
          /\ ixCall.input = parsers[i].literal
          /\ NoEarlierPrefix(i)
          /\ \E j \in (i + 1)..Len(parsers) :
                /\ IsPrefix(parsers[i].literal, parsers[j].literal)
                /\ parsers[i].literal # parsers[j].literal
          /\ ixCall.result = Finished(i - 1, <<>>)

\* parsing the whole stream in one call from the initial state
ixWhole == IndexParse(ixParser, ixInitial, ixInput)

\* C4: however the stream is split into non-empty chunks, the outcome is that
\* of parsing the whole stream in one call: the same error, Finished with the
\* same index and the same unconsumed bytes, or still Incomplete.
C4_IndexChunkIndependence ==
    ixCalled =>
        CASE ixCall.result.tag = "Err" -> ixWhole = ixCall.result
          [] ixCall.result.tag = "Finished" ->
                ixWhole = Finished(ixCall.result.result,
                                   ixCall.result.remaining \o Drop(ixInput, ixFed))
          [] ixCall.result.tag = "Incomplete" ->
                (ixFed = Len(ixInput) => ixWhole.tag = "Incomplete")

----------------------------------------------------------------------------
(* Properties of the OneLine session *)

olCalled == olCall.result.tag # "None"

\* the bytes handed to parse so far, over all calls
olReceived == Take(olInput, olFed)

\* position of the first terminator byte of s, 0 if it has none
FirstTerminator(s) ==
    IF \E k \in 1..Len(s) : s[k] \in {LF, CR}
    THEN CHOOSE k \in 1..Len(s) :
            s[k] \in {LF, CR} /\ \A m \in 1..(k - 1) : s[m] \notin {LF, CR}
    ELSE 0

\* parsing the whole stream in one call from a fresh state
olWhole == OneLineParse(OneLineCreateParserState, olInput)

\* C5: however a non-empty stream is split into non-empty chunks, the outcome
\* of OneLine is that of parsing the whole stream in one call: rejection,
\* Finished with the same text and unconsumed bytes, or Incomplete with the
\* same accumulated bytes and flag.
C5_LineChunkIndependence ==
    (olCalled /\ olCall.input # <<>>) =>
        CASE olCall.result.tag = "Err" -> olWhole.tag = "Err"
          [] olCall.result.tag = "Finished" ->
                olWhole = Finished(olCall.result.result,
                                   olCall.result.remaining \o Drop(olInput, olFed))
          [] olCall.result.tag = "Incomplete" ->
                (olFed = Len(olInput) =>
                    /\ olWhole.tag = "Incomplete"
                    /\ olWhole.new_state = olCall.result.new_state)

\* a line finished in a later call than the one that brought its first bytes
C5_Witness ==
    /\ olCalled
    /\ olCall.result.tag = "Finished"
    /\ olCall.state.bytes # <<>>
    /\ Len(olCall.input) > 1
    /\ olCall.result.remaining # <<>>

\* C6 as stated: the output of a Finished result is exactly the bytes
\* received before the first terminator, and the remainder the bytes of the
\* current chunk after it.
C6_OutputIsRawBytes ==
    (olCalled /\ olCall.result.tag = "Finished") =>
        LET t == FirstTerminator(olReceived)
        IN  /\ t > 0
            /\ olCall.result.result = Take(olReceived, t - 1)
            /\ olCall.result.remaining = Drop(olReceived, t)

\* C6 amended: the output is the lossy UTF-8 decoding of the bytes received
\* before the first terminator (those bytes themselves when they are valid
\* UTF-8), and the remainder the bytes of the current chunk after it.
C6_OutputIsDecodedLine ==
    (olCalled /\ olCall.result.tag = "Finished") =>
        LET t == FirstTerminator(olReceived)
        IN  /\ t > 0
            /\ olCall.result.result = FromUtf8Lossy(Take(olReceived, t - 1))
            /\ olCall.result.remaining = Drop(olReceived, t)
            /\ olCall.result.remaining =
                  Drop(olCall.input, t - (olFed - Len(olCall.input)))

\* "o" then CR LF "o" in a later call: the line ends at CR, LF stays in the
\* remainder
C6_Witness ==
    /\ olCalled
    /\ olCall.state.bytes = <<111>>
    /\ olCall.input = <<CR, LF, 111>>
    /\ olCall.result = Finished(<<111>>, <<LF, 111>>)

\* C7: when the first terminator of the session arrives after nothing but
\* whitespace (or after nothing at all), parse returns an error, however
\* the bytes were chunked.
C7_BlankLineRejected ==
    LET t == FirstTerminator(olReceived)
    IN  (t > 0 /\ \A k \in 1..(t - 1) : IsWhitespace(olReceived[k]))
            => olCall.result.tag = "Err"

\* whitespace arrived in an earlier call, the terminator alone in this one
C7_Witness ==
    /\ olCalled
    /\ olCall.state.bytes # <<>>
    /\ olCall.input \in {<<LF>>, <<CR>>}
    /\ olCall.result.tag = "Err"

\* the bytes of s are all whitespace
AllWhitespace(s) == \A k \in 1..Len(s) : IsWhitespace(s[k])

\* C19: in every state of a OneLine session the all-whitespace flag is false
\* exactly when the accumulated bytes contain a non-whitespace byte (so it
\* starts true), and once false it is false in every later state.
C19_FlagMonotone ==
    /\ [](olState.all_whitespace <=> AllWhitespace(olState.bytes))
    /\ [][~olState.all_whitespace => ~olState'.all_whitespace]_vars

\* whitespace arrived first, and a later call brought the byte that turned
\* the flag false
C19_Witness ==
    /\ olCalled
    /\ olCall.state.bytes # <<>>
    /\ olCall.state.all_whitespace
    /\ olCall.result.tag = "Incomplete"
    /\ ~olState.all_whitespace
    /\ olState = olCall.result.new_state

\* C8: a call with no bytes is rejected exactly when the all-whitespace flag
\* is still true; otherwise it is Incomplete with the state it was given and
\* an empty hint.
C8_EmptyInput ==
    (olCalled /\ olCall.input = <<>>) =>
        IF olCall.state.all_whitespace
        THEN olCall.result.tag = "Err"
        ELSE /\ olCall.result.tag = "Incomplete"
             /\ olCall.result.new_state = olCall.state
             /\ olCall.result.required_next.str = <<>>

\* an empty call after content was received
C8_Witness ==
    /\ olCalled
    /\ olCall.input = <<>>
    /\ ~olCall.state.all_whitespace
    /\ olCall.result.tag = "Incomplete"

----------------------------------------------------------------------------
(* ToolManager *)

\* Option
None == [tag |-> "None"]

Some(v) == [tag |-> "Some", value |-> v]

\* how a call to a method that may panic ends
Returned(v) == [tag |-> "Ok", value |-> v]

Panicked == [tag |-> "Panic"]

\* a Tool, as far as the grammar and the prompt use it
Tool(name, input_prompt, description) ==
    [name |-> name, input_prompt |-> input_prompt, description |-> description]

\* format!("{name}\n{prompt}")
Marker(tool) == tool.name \o <<LF>> \o tool.input_prompt

\* faulty variant of ToolChoices: the parser is built without looking whether
\* there are choices
ToolChoicesNoEmptyCheck(ts) ==
    Some(IndexParser([i \in 1..Len(ts) |-> LiteralParser(Marker(ts[i]), FALSE)]))

ToolChoices(ts) ==
    LET choices == [i \in 1..Len(ts) |-> LiteralParser(Marker(ts[i]), FALSE)]
    IN  IF choices = <<>> THEN None ELSE Some(IndexParser(choices))

\* "Thought: "
ThoughtPrefix == <<84, 104, 111, 117, 103, 104, 116, 58, 32>>

\* "Action: "
ActionPrefix == <<65, 99, 116, 105, 111, 110, 58, 32>>

\* "Final Answer: "
AnswerPrefix == <<70, 105, 110, 97, 108, 32, 65, 110, 115, 119, 101, 114, 58, 32>>

ThoughtConstraints == Then(LiteralParser(ThoughtPrefix, FALSE), OneLine)

\* faulty variant of ActionConstraints: the literal prefix lacks its trailing space
ActionConstraintsNoSpace(ts) ==
    LET choices == ToolChoices(ts)
    IN  IF choices.tag = "None" THEN Panicked
        ELSE Returned(Then(Then(LiteralParser(Take(ActionPrefix, 7), FALSE),
                                choices.value),
                           OneLine))

\* self.tool_choices().unwrap() panics on None
ActionConstraints(ts) ==
    LET choices == ToolChoices(ts)
    IN  IF choices.tag = "None" THEN Panicked
        ELSE Returned(Then(Then(LiteralParser(ActionPrefix, FALSE), choices.value),
                           OneLine))

AnswerConstraints == Then(LiteralParser(AnswerPrefix, FALSE), OneLine)

\* faulty variant of AnyActionConstraint: the Action alternative comes first
AnyActionConstraintActionFirst(ts) ==
    LET action == ActionConstraints(ts)
    IN  IF action.tag = "Panic" THEN Panicked
        ELSE Returned(Or(Or(action.value, ThoughtConstraints), AnswerConstraints))

AnyActionConstraint(ts) ==
    LET action == ActionConstraints(ts)
    IN  IF action.tag = "Panic" THEN Panicked
        ELSE Returned(Or(Or(ThoughtConstraints, action.value), AnswerConstraints))

\* tool.push(Box::new(tool))
AddTool(ts, tool) == Append(ts, tool)

\* faulty variant of GetToolByIndex: positions counted from one
GetToolByIndexOneBased(ts, index) ==
    IF index >= 1 /\ index <= Len(ts) THEN Some(ts[index]) ELSE None

\* self.tools.get(index).map(|t| &**t), index counted from zero
GetToolByIndex(ts, index) ==
    IF index < Len(ts) THEN Some(ts[index + 1]) ELSE None

----------------------------------------------------------------------------
(* ToolManager::prompt: the instruction text.  The format string is kept   *)
(* byte for byte, cut at its three placeholders.                            *)

\* the format string up to {tool_names}:
\*   Use the following format:
\*   
\*   Question: the input question you must answer
\*   Thought: you should always think about what to do
\*   Action: the action to take, should be one of [
PromptHead ==
    <<85, 115, 101, 32, 116, 104, 101, 32, 102, 111, 108, 108, 111, 119,
      105, 110, 103, 32, 102, 111, 114, 109, 97, 116, 58, 10, 10, 81, 117,
      101, 115, 116, 105, 111, 110, 58, 32, 116, 104, 101, 32, 105, 110,
      112, 117, 116, 32, 113, 117, 101, 115, 116, 105, 111, 110, 32, 121,
      111, 117, 32, 109, 117, 115, 116, 32, 97, 110, 115, 119, 101, 114,
      10, 84, 104, 111, 117, 103, 104, 116, 58, 32, 121, 111, 117, 32, 115,
      104, 111, 117, 108, 100, 32, 97, 108, 119, 97, 121, 115, 32, 116,
      104, 105, 110, 107, 32, 97, 98, 111, 117, 116, 32, 119, 104, 97, 116,
      32, 116, 111, 32, 100, 111, 10, 65, 99, 116, 105, 111, 110, 58, 32,
      116, 104, 101, 32, 97, 99, 116, 105, 111, 110, 32, 116, 111, 32, 116,
      97, 107, 101, 44, 32, 115, 104, 111, 117, 108, 100, 32, 98, 101, 32,
      111, 110, 101, 32, 111, 102, 32, 91>>

\* between {tool_names} and {tools}:
\*   ]
\*   Input: the input to the action
\*   Observation: the result of the action
\*   ... (this Thought/Action/Input/Observation can repeat N times)
\*   Thought: I now know the final answer
\*   Final Answer: the final answer to the original input question
\*   
\*   You have access to the following tools:
\*   
\*   
PromptMiddle ==
    <<93, 10, 73, 110, 112, 117, 116, 58, 32, 116, 104, 101, 32, 105, 110,
      112, 117, 116, 32, 116, 111, 32, 116, 104, 101, 32, 97, 99, 116, 105,
      111, 110, 10, 79, 98, 115, 101, 114, 118, 97, 116, 105, 111, 110, 58,
      32, 116, 104, 101, 32, 114, 101, 115, 117, 108, 116, 32, 111, 102,
      32, 116, 104, 101, 32, 97, 99, 116, 105, 111, 110, 10, 46, 46, 46,
      32, 40, 116, 104, 105, 115, 32, 84, 104, 111, 117, 103, 104, 116, 47,
      65, 99, 116, 105, 111, 110, 47, 73, 110, 112, 117, 116, 47, 79, 98,
      115, 101, 114, 118, 97, 116, 105, 111, 110, 32, 99, 97, 110, 32, 114,
      101, 112, 101, 97, 116, 32, 78, 32, 116, 105, 109, 101, 115, 41, 10,
      84, 104, 111, 117, 103, 104, 116, 58, 32, 73, 32, 110, 111, 119, 32,
      107, 110, 111, 119, 32, 116, 104, 101, 32, 102, 105, 110, 97, 108,
      32, 97, 110, 115, 119, 101, 114, 10, 70, 105, 110, 97, 108, 32, 65,
      110, 115, 119, 101, 114, 58, 32, 116, 104, 101, 32, 102, 105, 110,
      97, 108, 32, 97, 110, 115, 119, 101, 114, 32, 116, 111, 32, 116, 104,
      101, 32, 111, 114, 105, 103, 105, 110, 97, 108, 32, 105, 110, 112,
      117, 116, 32, 113, 117, 101, 115, 116, 105, 111, 110, 10, 10, 89,
      111, 117, 32, 104, 97, 118, 101, 32, 97, 99, 99, 101, 115, 115, 32,
      116, 111, 32, 116, 104, 101, 32, 102, 111, 108, 108, 111, 119, 105,
      110, 103, 32, 116, 111, 111, 108, 115, 58, 10, 10>>

\* between {tools} and {question}:
\*   
\*   
\*   Begin!
\*   
\*   Question: 
PromptBegin ==
    <<10, 10, 66, 101, 103, 105, 110, 33, 10, 10, 81, 117, 101, 115, 116,
      105, 111, 110, 58, 32>>

\* after {question}: a line break
PromptEnd == <<10>>

\* format!("# {}\n{}", tool.name(), tool.description())
ToolEntry(tool) == <<35, 32>> \o tool.name \o <<10>> \o tool.description

\* faulty variant of QuotedName: the name is left out
QuotedNameEmpty(tool) == <<39, 39>>

\* format!("'{}'", tool.name())
QuotedName(tool) == <<39>> \o tool.name \o <<39>>

RECURSIVE PromptLoop(_, _)
\* the loop over self.tools: both strings after the first k tools
PromptLoop(ts, k) ==
    IF k = 0 THEN [tools |-> <<>>, tool_names |-> <<>>]
    ELSE LET acc == PromptLoop(ts, k - 1)
         IN  [tools |-> acc.tools \o ToolEntry(ts[k]),
              tool_names |-> acc.tool_names \o QuotedName(ts[k])]

Prompt(ts, question) ==
    LET acc == PromptLoop(ts, Len(ts))
    IN  PromptHead \o acc.tool_names \o PromptMiddle \o acc.tools
            \o PromptBegin \o question \o PromptEnd

----------------------------------------------------------------------------
(* Registry session: tools are added to a ToolManager, then grammars are    *)
(* built from it, and one of them is fed a byte stream in non-empty chunks. *)
(* A built grammar owns its literals, so registrations after it was built   *)
(* do not reach it; the session registers first and builds afterwards.      *)

ToolNames == {<<115>>, <<116>>}

InputPrompts == {<<113>>, <<113, 58>>}

Descriptions == {<<100>>}

Tools == {Tool(n, p, d) : n \in ToolNames, p \in InputPrompts, d \in Descriptions}

\* argument and thought lines: "z", ":z", and a lone lead byte of UTF-8
Lines == {<<122>>, <<58, 122>>, <<194>>}

\* streams for the Action grammar: the marker of a registered tool, the
\* argument on the marker's last line or on a line of its own
ActionInputs(ts) ==
    {ActionPrefix \o Marker(ts[i]) \o sep \o arg \o <<LF>> :
        i \in 1..Len(ts), sep \in {<<>>, <<LF>>}, arg \in Lines}

\* "hello"
Hello == <<104, 101, 108, 108, 111>>

ThoughtInputs == {ThoughtPrefix \o line \o <<LF>> : line \in Lines \cup {Hello}}

AnswerInputs == {AnswerPrefix \o line \o <<LF>> : line \in Lines}

MarkerInputs(ts) == {Marker(ts[i]) \o rest : i \in 1..Len(ts), rest \in {<<>>, <<LF>>}}

RegCall(op, self, result) == [op |-> op, self |-> self, result |-> result]

\* the parser the last building call returned, if it returned one
HasBuilt ==
    /\ regCall.result.tag = "Ok"
    /\ regCall.op = "tool_choices" => regCall.result.value.tag = "Some"

Built ==
    IF regCall.op = "tool_choices" THEN regCall.result.value.value
    ELSE regCall.result.value

InputsFor(op, ts) ==
    CASE op = "tool_choices" -> MarkerInputs(ts)
      [] op = "thought_constraints" -> ThoughtInputs
      [] op = "answer_constraints" -> AnswerInputs
      [] op = "action_constraints" -> ActionInputs(ts)
      [] op = "any_action_constraint" -> ActionInputs(ts) \cup ThoughtInputs \cup AnswerInputs

InitReg ==
    /\ RegIdle
    /\ IxIdle
    /\ OlIdle

RegAddTool ==
    /\ grammar = NoGrammar
    /\ regCall = NoRegCall
    /\ Len(tools) < MaxTools
    /\ \E tool \in Tools : tools' = AddTool(tools, tool)
    /\ UNCHANGED <<regCall, grammar, gInput, gFed, gState, gCall, ixVars, olVars>>

RegToolChoices ==
    /\ grammar = NoGrammar
    /\ regCall' = RegCall("tool_choices", tools, Returned(ToolChoices(tools)))
    /\ UNCHANGED <<tools, grammar, gInput, gFed, gState, gCall, ixVars, olVars>>

RegActionConstraints ==
    /\ grammar = NoGrammar
    /\ regCall' = RegCall("action_constraints", tools, ActionConstraints(tools))
    /\ UNCHANGED <<tools, grammar, gInput, gFed, gState, gCall, ixVars, olVars>>

RegAnyActionConstraint ==
    /\ grammar = NoGrammar
    /\ regCall' = RegCall("any_action_constraint", tools, AnyActionConstraint(tools))
    /\ UNCHANGED <<tools, grammar, gInput, gFed, gState, gCall, ixVars, olVars>>

\* create_parser_state() on the grammar just built, for a stream to parse
GrammarCreateState ==
    /\ grammar = NoGrammar
    /\ HasBuilt
    /\ grammar' = Built
    /\ gState' = CreateParserState(Built)
    /\ gInput' \in InputsFor(regCall.op, regCall.self)
    /\ UNCHANGED <<tools, regCall, gFed, gCall, ixVars, olVars>>

\* parse(&gState, chunk) with the next n bytes of the stream
GrammarFeed ==
    /\ grammar # NoGrammar
    /\ gCall.result.tag \in {"None", "Incomplete"}
    /\ \E n \in 1..(Len(gInput) - gFed) :
         LET chunk == SubSeq(gInput, gFed + 1, gFed + n)
             result == Parse(grammar, gState, chunk)
         IN  /\ gCall' = Call(gState, chunk, result)
             /\ gState' = Threaded(gState, result)
             /\ gFed' = gFed + n
    /\ UNCHANGED <<tools, regCall, grammar, gInput, ixVars, olVars>>

\* get_tool_by_index(index) with the index the tool_choices grammar finished at
RegGetToolByIndex ==
    /\ grammar # NoGrammar
    /\ regCall.op = "tool_choices"
    /\ gCall.result.tag = "Finished"
    /\ regCall' = RegCall("get_tool_by_index", tools,
                          Returned(GetToolByIndex(tools, gCall.result.result)))
    /\ UNCHANGED <<tools, grammar, gInput, gFed, gState, gCall, ixVars, olVars>>

NextReg ==
    \/ RegAddTool
    \/ RegToolChoices
    \/ RegActionConstraints
    \/ RegAnyActionConstraint
    \/ GrammarCreateState
    \/ GrammarFeed
    \/ RegGetToolByIndex

SpecReg == InitReg /\ [][NextReg]_vars

----------------------------------------------------------------------------
(* Properties of the registry session *)

gCalled == gCall.result.tag # "None"

\* the last call was handed the whole stream, from the initial state
gInOneCall ==
    /\ gCalled
    /\ gCall.state = CreateParserState(grammar)
    /\ gCall.input = gInput

\* the output of the Action grammar: (((), index), line)
ActionOutput(index, line) == << << <<>>, index >>, line >>

\* C9 as stated: "Action: " + name + line break + instruction + line break
\* + argument + line break finishes at the capability's position with the
\* argument as captured text.
C9_ExactFormAccepted ==
    (gInOneCall /\ regCall.op = "action_constraints") =>
        \A i \in 1..Len(regCall.self) : \A arg \in Lines :
            gInput = ActionPrefix \o Marker(regCall.self[i]) \o <<LF>> \o arg \o <<LF>>
            => gCall.result = Finished(ActionOutput(i - 1, FromUtf8Lossy(arg)), <<>>)

\* C9 amended: "Action: " + name + line break + instruction + argument +
\* line break, the argument on the same line as the instruction, fed in one
\* call, finishes at the capability's position with the decoded argument as
\* captured text, when no earlier-registered marker is a prefix of the
\* bytes fed after "Action: ".
C9_ActionLineAccepted ==
    (gInOneCall /\ regCall.op = "action_constraints") =>
        \A i \in 1..Len(regCall.self) : \A arg \in Lines :
            LET body == Marker(regCall.self[i]) \o arg \o <<LF>>
            IN  (/\ gInput = ActionPrefix \o body
                 /\ \A j \in 1..(i - 1) : ~IsPrefix(Marker(regCall.self[j]), body))
                => gCall.result = Finished(ActionOutput(i - 1, FromUtf8Lossy(arg)), <<>>)

\* the second capability is selected, its argument being text that needed
\* no replacement
C9_Witness ==
    /\ gInOneCall
    /\ regCall.op = "action_constraints"
    /\ Len(regCall.self) = 2
    /\ \E arg \in Lines :
          /\ gInput = ActionPrefix \o Marker(regCall.self[2]) \o arg \o <<LF>>
          /\ ~IsPrefix(Marker(regCall.self[1]), Marker(regCall.self[2]) \o arg \o <<LF>>)
          /\ gCall.result = Finished(ActionOutput(1, arg), <<>>)

RECURSIVE HasEmptyIndex(_)
\* the grammar contains an IndexParser without branches
HasEmptyIndex(p) ==
    CASE p.type = "Index" -> p.parsers = <<>>
      [] p.type \in {"Sequence", "Choice"} ->
            HasEmptyIndex(p.parser1) \/ HasEmptyIndex(p.parser2)
      [] OTHER -> FALSE

\* C10: building the Action grammar or the step grammar never fails with a
\* precondition violation, also on a registry without capabilities, and no
\* IndexParser without branches is ever parsed with.
C10_EmptyRegistryChecked ==
    /\ regCall.result.tag # "Panic"
    /\ grammar # NoGrammar => ~HasEmptyIndex(grammar)

\* C11: tool_choices returns absent exactly when the registry holds no
\* capability; otherwise an IndexParser with one literal branch per
\* capability, in registration order, branch i being name_i, line break,
\* input instruction_i.
C11_ToolChoicesShape ==
    regCall.op = "tool_choices" =>
        LET ts == regCall.self
            got == regCall.result.value
        IN  /\ regCall.result.tag = "Ok"
            /\ got.tag = "None" <=> Len(ts) = 0
            /\ got.tag = "Some" =>
                  /\ got.value.type = "Index"
                  /\ Len(got.value.parsers) = Len(ts)
                  /\ \A i \in 1..Len(ts) :
                        /\ got.value.parsers[i].type = "Literal"
                        /\ got.value.parsers[i].literal =
                              ts[i].name \o <<10>> \o ts[i].input_prompt

\* tool_choices after two registrations with different markers
C11_Witness ==
    /\ regCall.op = "tool_choices"
    /\ Len(regCall.self) = 2
    /\ regCall.self[1] # regCall.self[2]
    /\ regCall.result.value.tag = "Some"
    /\ Len(regCall.result.value.value.parsers) = 2

\* no earlier-registered marker is a prefix of the marker of tool i
NoEarlierMarkerPrefix(ts, i) ==
    \A j \in 1..(i - 1) : ~IsPrefix(Marker(ts[j]), Marker(ts[i]))

\* C12: the position the tool_choices grammar reports is the registry
\* position: when no earlier marker is a prefix of marker i, parsing marker
\* i from the initial state finishes with index i, and get_tool_by_index
\* with that index returns tool i.
C12_PositionIsRegistryPosition ==
    (regCall.op = "get_tool_by_index" /\ gInOneCall) =>
        LET ts == regCall.self
        IN  \A i \in 1..Len(ts) :
                (gInput = Marker(ts[i]) /\ NoEarlierMarkerPrefix(ts, i)) =>
                    /\ gCall.result = Finished(i - 1, <<>>)
                    /\ regCall.result = Returned(Some(ts[i]))

\* the marker of the second of two tools was parsed and looked up
C12_Witness ==
    /\ regCall.op = "get_tool_by_index"
    /\ gInOneCall
    /\ Len(regCall.self) = 2
    /\ gInput = Marker(regCall.self[2])
    /\ NoEarlierMarkerPrefix(regCall.self, 2)
    /\ gCall.result.result = 1
    /\ regCall.result = Returned(Some(regCall.self[2]))

\* the stream is "Thought: " + line + line break
IsThoughtOf(input, line) == input = ThoughtPrefix \o line \o <<LF>>

\* C13: for a non-empty registry, "Thought: hello" and a line break handed
\* to the any_action_constraint grammar in its initial state finishes
\* through the Thought alternative only: the output is tagged as the
\* left-most alternative and carries the line, nothing remains, and the
\* Action and Answer alternatives reject the stream at its first byte.
C13_ThoughtOnly ==
    (regCall.op = "any_action_constraint" /\ gInOneCall) =>
        \A line \in Lines \cup {Hello} :
            IsThoughtOf(gInput, line) =>
                /\ gCall.result =
                      Finished(Left(Left(<< <<>>, FromUtf8Lossy(line) >>)), <<>>)
                /\ LET action == ActionConstraints(regCall.self).value
                       first == <<gInput[1]>>
                   IN  /\ Parse(action, CreateParserState(action), first).tag = "Err"
                       /\ Parse(AnswerConstraints,
                                CreateParserState(AnswerConstraints), first).tag = "Err"

\* "Thought: hello" and a line break finished against a two-tool registry
C13_Witness ==
    /\ regCall.op = "any_action_constraint"
    /\ Len(regCall.self) = 2
    /\ gInOneCall
    /\ IsThoughtOf(gInput, Hello)
    /\ gCall.result.tag = "Finished"
    /\ gCall.result.result = Left(Left(<< <<>>, Hello >>))

----------------------------------------------------------------------------
(* Step-grammar session: the Thought or the Answer grammar is built and fed *)
(* a byte stream in non-empty chunks.                                       *)

RegThoughtConstraints ==
    /\ grammar = NoGrammar
    /\ regCall' = RegCall("thought_constraints", tools, Returned(ThoughtConstraints))
    /\ UNCHANGED <<tools, grammar, gInput, gFed, gState, gCall, ixVars, olVars>>

RegAnswerConstraints ==
    /\ grammar = NoGrammar
    /\ regCall' = RegCall("answer_constraints", tools, Returned(AnswerConstraints))
    /\ UNCHANGED <<tools, grammar, gInput, gFed, gState, gCall, ixVars, olVars>>

NextStep ==
    \/ RegAddTool
    \/ RegThoughtConstraints
    \/ RegAnswerConstraints
    \/ GrammarCreateState
    \/ GrammarFeed

SpecStep == InitReg /\ [][NextStep]_vars

\* parsing the whole stream in one call from the initial state
gWhole == Parse(grammar, CreateParserState(grammar), gInput)

\* C16: however "Thought: " + line + line break, or "Final Answer: " + line
\* + line break, is split into non-empty chunks, the boundary right after
\* the literal prefix included, the Thought or Answer grammar gives the
\* outcome of parsing the whole stream in one call: no error where that
\* finishes, and Finished with the same output and unconsumed bytes.
C16_StepChunkIndependence ==
    (regCall.op \in {"thought_constraints", "answer_constraints"} /\ gCalled) =>
        CASE gCall.result.tag = "Err" -> gWhole.tag = "Err"
          [] gCall.result.tag = "Finished" ->
                gWhole = Finished(gCall.result.result,
                                  gCall.result.remaining \o Drop(gInput, gFed))
          [] gCall.result.tag = "Incomplete" ->
                (gFed = Len(gInput) => gWhole.tag = "Incomplete")

----------------------------------------------------------------------------
(* Prompt session: tools are registered, then prompt(question) is called.   *)
(* The names and descriptions are upper-case letters, which the fixed text  *)
(* of the prompt does not contain; one description equals a name, and one   *)
(* question contains a name.                                                *)

\* "S", "W"
PromptNames == {<<83>>, <<87>>}

\* "D", "E", "S"
PromptDescriptions == {<<68>>, <<69>>, <<83>>}

PromptTools ==
    {Tool(n, <<113>>, d) : n \in PromptNames, d \in PromptDescriptions}

\* "?", "S?"
Questions == {<<63>>, <<83, 63>>}

PromptAddTool ==
    /\ regCall = NoRegCall
    /\ Len(tools) < MaxTools
    /\ \E tool \in PromptTools : tools' = AddTool(tools, tool)
    /\ UNCHANGED <<regCall, grammar, gInput, gFed, gState, gCall, ixVars, olVars>>

RegPrompt ==
    /\ \E question \in Questions :
         regCall' = [op |-> "prompt", self |-> tools, question |-> question,
                     result |-> Returned(Prompt(tools, question))]
    /\ UNCHANGED <<tools, grammar, gInput, gFed, gState, gCall, ixVars, olVars>>

NextPrompt ==
    \/ PromptAddTool
    \/ RegPrompt

SpecPrompt == InitReg /\ [][NextPrompt]_vars

\* the positions at which pat occurs in text
Occurrences(pat, text) ==
    {k \in 1..(Len(text) - Len(pat) + 1) : SubSeq(text, k, k + Len(pat) - 1) = pat}

SetMin(S) == CHOOSE x \in S : \A y \in S : x <= y
SetMax(S) == CHOOSE x \in S : \A y \in S : x >= y

PromptStrings(ts) ==
    [k \in 1..(2 * Len(ts)) |->
        IF k % 2 = 1 THEN ts[(k + 1) \div 2].name ELSE ts[k \div 2].description]

\* no name or description occurs in another one, in the question or in the
\* fixed text
StringsApart(ts, question) ==
    LET strs == PromptStrings(ts)
    IN  /\ \A a, b \in 1..Len(strs) : a # b => Occurrences(strs[a], strs[b]) = {}
        /\ \A a \in 1..Len(strs) :
              \A text \in {question, PromptHead, PromptMiddle, PromptBegin} :
                  Occurrences(strs[a], text) = {}

----------------------------------------------------------------------------
(* Checkpoint session: a caller keeps the state of an IndexParser or of     *)
(* OneLine, tries candidate chunks (the empty one included) against it, and *)
(* may go on from the state an Incomplete result returned.  Branch i of an  *)
(* IndexParser reports the error i - 1.                                     *)

CheckpointParsers ==
    {OneLine} \cup
    {IndexParser([i \in 1..Len(ps) |-> BranchParser(ps[i], i - 1)]) :
        ps \in UNION {[1..n -> {LiteralParser(l, FALSE) : l \in SeqsUpTo(IxBytes, MaxLitLen)}] :
                        n \in 1..MaxBranches}}

\* the candidate chunks for parser p on the retained state
Candidates(p, state) ==
    IF p.type = "OneLine"
    THEN SeqsUpTo(OlBytes, Min(MaxChunkLen, MaxLineLen - Len(state.bytes)))
    ELSE SeqsUpTo(IxBytes, MaxChunkLen)

InitCheckpoint ==
    /\ tools = <<>>
    /\ regCall = NoRegCall
    /\ grammar \in CheckpointParsers
    /\ gState = CreateParserState(grammar)
    /\ gInput = <<>>
    /\ gFed = 0
    /\ gCall = NoCallYet
    /\ IxIdle
    /\ OlIdle

\* parse(&gState, chunk); the result is looked at, the state is kept
ParseCandidate ==
    /\ \E chunk \in Candidates(grammar, gState) :
         /\ gCall' = Call(gState, chunk, Parse(grammar, gState, chunk))
         /\ gState' = StateAfterParse(grammar, gState, chunk)
    /\ UNCHANGED <<tools, regCall, grammar, gInput, gFed, ixVars, olVars>>

\* the caller goes on from the state the last candidate returned
AdoptState ==
    /\ gCall.result.tag = "Incomplete"
    /\ gState' = gCall.result.new_state
    /\ gCall' = NoCallYet
    /\ UNCHANGED <<tools, regCall, grammar, gInput, gFed, ixVars, olVars>>

NextCheckpoint ==
    \/ ParseCandidate
    \/ AdoptState

SpecCheckpoint == InitCheckpoint /\ [][NextCheckpoint]_vars

----------------------------------------------------------------------------
(* Properties of IndexParser in the checkpoint session *)

gIndex == grammar.type = "Index" /\ gCalled

gBranches == 1..Len(grammar.parsers)

\* branch i was dead in the state given to the last call
gDeadBefore(i) == gCall.state.states[i].tag = "Err"

\* what branch i's sub-parser returns on the last call's state and input
gSubResult(i) == Parse(grammar.parsers[i], gCall.state.states[i].state, gCall.input)

\* sequence s without its entry i
Without(s, i) == [k \in 1..(Len(s) - 1) |-> IF k < i THEN s[k] ELSE s[k + 1]]

\* the last call, had branch i not been registered
gWithout(i) ==
    Parse(IndexParser(Without(grammar.parsers, i)),
          IndexParserState(Without(gCall.state.states, i)), gCall.input)

\* C17: a branch that is dead in the state given to a call stays dead: its
\* sub-parser is not invoked, the returned state holds its error unchanged,
\* the merged hint is the one the call gives without the branch, and a
\* Finished result does not report its position.
C17_DeadBranchStaysDead ==
    gIndex =>
        \A i \in gBranches :
            gDeadBefore(i) =>
                /\ i \notin IndexRun(grammar, gCall.state, gCall.input).invoked
                /\ gCall.result.tag = "Finished" => gCall.result.result # i - 1
                /\ gCall.result.tag = "Incomplete" =>
                      /\ gCall.result.new_state.states[i] = gCall.state.states[i]
                      /\ gWithout(i).tag = "Incomplete"
                      /\ gWithout(i).required_next = gCall.result.required_next

\* a call on a state with a dead first branch: the bytes are those of the
\* dead branch's literal, and the second branch finishes on them
C17_Witness ==
    /\ gIndex
    /\ Len(grammar.parsers) = 2
    /\ gDeadBefore(1)
    /\ gCall.input = grammar.parsers[1].parser.literal
    /\ gCall.result.tag = "Finished"
    /\ gCall.result.result = 1

\* branch i is dead when the last call returns: it was dead before, or its
\* sub-parser rejected the input
gDeadAtEnd(i) == gDeadBefore(i) \/ gSubResult(i).tag = "Err"

\* branch i was alive and its sub-parser returned tag on the last call
gReported(i, tag) == ~gDeadBefore(i) /\ gSubResult(i).tag = tag

\* C18: parse fails exactly when no branch finishes and every branch is dead
\* at the end of the call; the error is then the one of the last-registered
\* branch, the stored one if that branch died earlier; and when a branch is
\* rejected in a call that does not fail, a sibling finished or reported
\* Incomplete in that call.
C18_FailsWhenAllDead ==
    gIndex =>
        LET n == Len(grammar.parsers)
        IN  /\ gCall.result.tag = "Err" <=>
                  /\ \A i \in gBranches : ~gReported(i, "Finished")
                  /\ \A i \in gBranches : gDeadAtEnd(i)
            /\ gCall.result.tag = "Err" =>
                  gCall.result.err = IF gDeadBefore(n) THEN gCall.state.states[n].err
                                     ELSE gSubResult(n).err
            /\ \A i \in gBranches :
                  (gReported(i, "Err") /\ gCall.result.tag # "Err") =>
                      \E j \in gBranches \ {i} :
                          gReported(j, "Finished") \/ gReported(j, "Incomplete")

\* a call fails with the stored error of the last branch, which died in an
\* earlier call, when the first branch is rejected
C18_Witness ==
    /\ gIndex
    /\ Len(grammar.parsers) = 2
    /\ gDeadBefore(2)
    /\ gReported(1, "Err")
    /\ gCall.result = Err(gCall.state.states[2].err)
    /\ gCall.result.err # gSubResult(1).err

\* C20: a state returned in an Incomplete result has as many entries as the
\* parser has branches, and at least one of them is alive: a branch that
\* reported Incomplete in that call, with the state it returned.  The state
\* the caller holds is of that kind as well.
C20_IncompleteStateHasAliveBranch ==
    /\ (gIndex /\ gCall.result.tag = "Incomplete") =>
          LET new_state == gCall.result.new_state
          IN  /\ Len(new_state.states) = Len(grammar.parsers)
              /\ \E i \in gBranches :
                    /\ gReported(i, "Incomplete")
                    /\ new_state.states[i] = OkState(gSubResult(i).new_state)
    /\ grammar.type = "Index" =>
          /\ Len(gState.states) = Len(grammar.parsers)
          /\ \E i \in gBranches : gState.states[i].tag = "Ok"

\* an Incomplete result whose state holds a dead and an alive branch, from
\* a call on a state that held a dead branch already
C20_Witness ==
    /\ gIndex
    /\ gCall.result.tag = "Incomplete"
    /\ \E i \in gBranches : gDeadBefore(i)
    /\ \E i \in gBranches : gCall.result.new_state.states[i].tag = "Ok"
    /\ gState = gCall.state

====
